---- MODULE Spec2Model ----
(***************************************************************************)
(* Model of samples/license_plate_recognition/custom_roi.py: the three     *)
(* pyfunc stages CreateROI, FakeOCR and MergeROI working on the object     *)
(* metadata of one frame.                                                  *)
(*                                                                         *)
(* A string is a sequence of one-character strings, so that str.split can  *)
(* be computed.  An ObjectMeta is a record on the heap, named by its index *)
(* there; parent = None is index 0.  frame_meta.objects is the sequence of *)
(* the indices of the objects registered in the frame.  An object removed  *)
(* from the frame stays on the heap (the Python object outlives its        *)
(* registration), it is only no longer listed in frame_meta.objects.       *)
(***************************************************************************)
EXTENDS Integers, Sequences, FiniteSets, TLC

VARIABLES
    createROI,  \* the CreateROI instance
    fakeOCR,    \* the FakeOCR instance
    mergeROI,   \* the MergeROI instance
    heap,       \* the ObjectMeta objects allocated for the frame
    objects,    \* frame_meta.objects
    pc,         \* position of the running process_frame, "idle" between calls
    local,      \* local variables of the running process_frame
    plan,       \* the stages the host still calls on the frame
    given,      \* history: the graph the host handed over with the frame
    entry,      \* history: the graph at entry of the last process_frame
    calls       \* history: the process_frame calls so far, with their outcome

vars == <<createROI, fakeOCR, mergeROI, heap, objects, pc, local, plan,
          given, entry, calls>>

----------------------------------------------------------------------------
(* Bounds *)

\* objects in the frame handed to the pipeline
MaxObjects == 2
\* entries of the `inputs` option
MaxInputs == 1

\* objects in a frame handed to a pipeline made of MergeROI alone
MaxRelayObjects == 3

None == 0

----------------------------------------------------------------------------
(* Strings and qualified names *)

s_vp == <<"v", ".", "p">>
s_cr == <<"c", ".", "r">>
s_mt == <<"m", ".", "t">>
s_one == <<"c", "r">>
s_three == <<"c", ".", "r", ".", "x">>
s_trail == <<"c", ".", "r", ".">>

n_vp == << <<"v">>, <<"p">> >>
n_cr == << <<"c">>, <<"r">> >>
n_mt == << <<"m">>, <<"t">> >>
n_ok == << <<"o">>, <<"k">> >>

\* what the host may write in the options of the stages
InputStrings == {s_vp, s_cr, s_one, s_three}
RoiStrings == {s_cr, s_one, s_three, s_trail}
AttributeStrings == {s_mt, s_one, s_three}

RECURSIVE split(_)
\* str.split("."): the parts between the separators, empty parts kept
split(s) ==
    IF s = <<>> THEN << <<>> >>
    ELSE LET rest == split(Tail(s))
         IN  IF Head(s) = "."
             THEN << <<>> >> \o rest
             ELSE << <<Head(s)>> \o Head(rest) >> \o Tail(rest)

\* mutant of extract_element_name: assert len(name_parts) >= 2
extract_element_name_AtLeast2(fullname) ==
    LET name_parts == split(fullname)
    IN  IF Len(name_parts) >= 2
        THEN [raised |-> FALSE, value |-> <<name_parts[1], name_parts[2]>>]
        ELSE [raised |-> TRUE, value |-> << <<>>, <<>> >>]

\* extract_element_name: raised = the assert failed
extract_element_name(fullname) ==
    LET name_parts == split(fullname)
    IN  IF Len(name_parts) = 2
        THEN [raised |-> FALSE, value |-> <<name_parts[1], name_parts[2]>>]
        ELSE [raised |-> TRUE, value |-> << <<>>, <<>> >>]

Range(s) == {s[i] : i \in 1..Len(s)}

RECURSIVE SeqsUpTo(_, _)
SeqsUpTo(S, n) ==
    IF n = 0 THEN {<<>>}
    ELSE SeqsUpTo(S, n - 1) \cup
         {Append(q, x) : q \in {r \in SeqsUpTo(S, n - 1) : Len(r) = n - 1}, x \in S}

----------------------------------------------------------------------------
(* ObjectMeta and attributes *)

NoAttrs == << >>

AttributeMeta(element_name, name, value, confidence) ==
    [element_name |-> element_name, name |-> name,
     value |-> value, confidence |-> confidence]

\* ObjectMeta(element_name, label, bbox): no parent, no attributes
ObjectMeta(element_name, label, bbox) ==
    [element_name |-> element_name, label |-> label, bbox |-> bbox,
     parent |-> None, attrs |-> NoAttrs]

HasAttr(o, element_name, name) == <<element_name, name>> \in DOMAIN o.attrs

\* ObjectMeta.add_attr_meta: the attribute is stored under (element_name, name),
\* replacing the one stored there
add_attr_meta(o, element_name, name, value, confidence) ==
    [o EXCEPT !.attrs =
        [k \in (DOMAIN o.attrs) \cup {<<element_name, name>>} |->
            IF k = <<element_name, name>>
            THEN AttributeMeta(element_name, name, value, confidence)
            ELSE o.attrs[k]]]

\* frame_meta.remove_obj_meta
remove_obj_meta(objs, id) == SelectSeq(objs, LAMBDA x : x # id)


----------------------------------------------------------------------------
(* The frames the host hands to the pipeline *)

\* a bounding box is opaque to the stages: two values, and by symmetry the
\* first object of a frame has the first
BBoxes == {10, 20}

\* attribute maps of the objects of a new frame
InitAttrs ==
    { NoAttrs,
      (n_mt :> AttributeMeta(n_mt[1], n_mt[2], 2, 3)),
      (n_mt :> AttributeMeta(n_mt[1], n_mt[2], 1, 1)) @@
          (n_ok :> AttributeMeta(n_ok[1], n_ok[2], 5, 7)) }

ObjectNames == {n_vp, n_cr}

RECURSIVE Ancestor(_, _, _, _)
\* a is reached from i by at most k parent links of p
Ancestor(p, i, a, k) ==
    /\ k > 0
    /\ p[i] # None
    /\ (p[i] = a \/ Ancestor(p, p[i], a, k - 1))

\* the parent links of n objects: any forest, in any order of the objects
Parents(n) ==
    { p \in [1..n -> 0..n] : \A i \in 1..n : ~Ancestor(p, i, i, n) }

Props(n) ==
    { q \in [1..n -> [name : ObjectNames, bbox : BBoxes, attrs : InitAttrs]] :
        n > 0 => q[1].bbox = 10 }

HeapsOfLen(n) ==
    { [i \in 1..n |->
          [element_name |-> q[i].name[1], label |-> q[i].name[2], bbox |-> q[i].bbox,
           parent |-> p[i], attrs |-> q[i].attrs]] :
        p \in Parents(n), q \in Props(n) }

Frames == UNION {HeapsOfLen(n) : n \in 0..MaxObjects}

Ids(n) == [i \in 1..n |-> i]

Graph(objs, hp) == [objects |-> objs, heap |-> hp]
NoGraph == Graph(<<>>, <<>>)

\* the elements of the pipeline, in pipeline order; the host may leave any out
Pipeline == <<"CreateROI", "FakeOCR", "MergeROI">>
Plans ==
    { SelectSeq(Pipeline, LAMBDA st : st \in S) : S \in SUBSET Range(Pipeline) }

----------------------------------------------------------------------------
(* Construction of the stages *)

Unbuilt ==
    [state |-> "unbuilt", args |-> <<>>, inputs |-> <<>>,
     roi_object_element_name |-> <<>>, roi_object_label |-> <<>>,
     attribute_element_name |-> <<>>, attribute_name |-> <<>>]

\* the instance after __init__ raised: there is none
Failed(args) == [Unbuilt EXCEPT !.state = "failed", !.args = args]

\* CreateROI.__init__
CreateROI_init(inputs, roi) ==
    LET parsed == [i \in 1..Len(inputs) |-> extract_element_name(inputs[i])]
        r == extract_element_name(roi)
        args == <<inputs, roi>>
    IN  IF (\E i \in 1..Len(inputs) : parsed[i].raised) \/ r.raised
        THEN Failed(args)
        ELSE [Unbuilt EXCEPT !.state = "ready", !.args = args,
                             !.inputs = [i \in 1..Len(inputs) |-> parsed[i].value],
                             !.roi_object_element_name = r.value[1],
                             !.roi_object_label = r.value[2]]

\* FakeOCR.__init__
FakeOCR_init(roi, attribute) ==
    LET r == extract_element_name(roi)
        a == extract_element_name(attribute)
        args == <<roi, attribute>>
    IN  IF r.raised \/ a.raised
        THEN Failed(args)
        ELSE [Unbuilt EXCEPT !.state = "ready", !.args = args,
                             !.roi_object_element_name = r.value[1],
                             !.roi_object_label = r.value[2],
                             !.attribute_element_name = a.value[1],
                             !.attribute_name = a.value[2]]

\* MergeROI.__init__
MergeROI_init(roi, attribute) ==
    LET r == extract_element_name(roi)
        a == extract_element_name(attribute)
        args == <<roi, attribute>>
    IN  IF r.raised \/ a.raised
        THEN Failed(args)
        ELSE [Unbuilt EXCEPT !.state = "ready", !.args = args,
                             !.roi_object_element_name = r.value[1],
                             !.roi_object_label = r.value[2],
                             !.attribute_element_name = a.value[1],
                             !.attribute_name = a.value[2]]

NoLocal == [list |-> <<>>, i |-> 0, child |-> None]

Init ==
    /\ createROI = Unbuilt
    /\ fakeOCR = Unbuilt
    /\ mergeROI = Unbuilt
    /\ heap = <<>>
    /\ objects = <<>>
    /\ pc = "building"
    /\ local = NoLocal
    /\ plan = <<>>
    /\ given = NoGraph
    /\ entry = NoGraph
    /\ calls = <<>>

\* the host builds the elements in pipeline order; an exception ends the build
ConstructCreateROI ==
    /\ pc = "building"
    /\ createROI.state = "unbuilt"
    /\ \E inputs \in SeqsUpTo(InputStrings, MaxInputs), roi \in RoiStrings :
          createROI' = CreateROI_init(inputs, roi)
    /\ UNCHANGED <<fakeOCR, mergeROI, heap, objects, pc, local, plan, given, entry, calls>>

ConstructFakeOCR ==
    /\ pc = "building"
    /\ createROI.state = "ready"
    /\ fakeOCR.state = "unbuilt"
    /\ \E roi \in RoiStrings, attribute \in AttributeStrings :
          fakeOCR' = FakeOCR_init(roi, attribute)
    /\ UNCHANGED <<createROI, mergeROI, heap, objects, pc, local, plan, given, entry, calls>>

ConstructMergeROI ==
    /\ pc = "building"
    /\ fakeOCR.state = "ready"
    /\ mergeROI.state = "unbuilt"
    /\ \E roi \in RoiStrings, attribute \in AttributeStrings :
          mergeROI' = MergeROI_init(roi, attribute)
    /\ UNCHANGED <<createROI, fakeOCR, heap, objects, pc, local, plan, given, entry, calls>>

\* the host hands a frame to the built pipeline
NewFrame ==
    /\ pc = "building"
    /\ createROI.state = "ready" /\ fakeOCR.state = "ready" /\ mergeROI.state = "ready"
    /\ \E h \in Frames, p \in Plans :
          /\ heap' = h
          /\ objects' = Ids(Len(h))
          /\ given' = Graph(Ids(Len(h)), h)
          /\ plan' = p
    /\ pc' = "idle"
    /\ UNCHANGED <<createROI, fakeOCR, mergeROI, local, entry, calls>>

Call(stage) ==
    /\ pc = "idle"
    /\ plan # <<>>
    /\ Head(plan) = stage
    /\ plan' = Tail(plan)
    /\ entry' = Graph(objects, heap)

Return(stage) ==
    /\ pc' = "idle"
    /\ local' = NoLocal
    /\ calls' = Append(calls, <<stage, "returned">>)

\* an exception leaves process_frame; the host stops the pipeline
Raise(stage) ==
    /\ pc' = "idle"
    /\ local' = NoLocal
    /\ plan' = <<>>
    /\ calls' = Append(calls, <<stage, "raised">>)

----------------------------------------------------------------------------
(* CreateROI.process_frame *)

Name(o) == <<o.element_name, o.label>>

\* lines 39-43
CreateROI_Select ==
    /\ Call("CreateROI")
    /\ createROI.state = "ready"
    /\ local' = [NoLocal EXCEPT
                   !.list = SelectSeq(objects,
                               LAMBDA id : Name(heap[id]) \in Range(createROI.inputs)),
                   !.i = 1]
    /\ pc' = "create_loop"
    /\ UNCHANGED <<createROI, fakeOCR, mergeROI, heap, objects, given, calls>>

\* mutant of CreateROI_New: bbox=obj.bbox is left out, the object gets a default box
CreateROI_New_DefaultBBox ==
    /\ pc = "create_loop"
    /\ local.i <= Len(local.list)
    /\ heap' = Append(heap, ObjectMeta(createROI.roi_object_element_name,
                                       createROI.roi_object_label, 20))
    /\ local' = [local EXCEPT !.child = Len(heap) + 1]
    /\ pc' = "create_add"
    /\ UNCHANGED <<createROI, fakeOCR, mergeROI, objects, plan, given, entry, calls>>

\* mutant of CreateROI_New: the parent is given to the constructor, before the
\* object is added to the frame
CreateROI_New_WithParent ==
    /\ pc = "create_loop"
    /\ local.i <= Len(local.list)
    /\ heap' = Append(heap, [ObjectMeta(createROI.roi_object_element_name,
                                        createROI.roi_object_label,
                                        heap[local.list[local.i]].bbox)
                               EXCEPT !.parent = local.list[local.i]])
    /\ local' = [local EXCEPT !.child = Len(heap) + 1]
    /\ pc' = "create_add"
    /\ UNCHANGED <<createROI, fakeOCR, mergeROI, objects, plan, given, entry, calls>>

\* lines 47-51
CreateROI_New ==
    /\ pc = "create_loop"
    /\ local.i <= Len(local.list)
    /\ heap' = Append(heap, ObjectMeta(createROI.roi_object_element_name,
                                       createROI.roi_object_label,
                                       heap[local.list[local.i]].bbox))
    /\ local' = [local EXCEPT !.child = Len(heap) + 1]
    /\ pc' = "create_add"
    /\ UNCHANGED <<createROI, fakeOCR, mergeROI, objects, plan, given, entry, calls>>

\* mutant of CreateROI_Add: the loop runs over frame_meta.objects itself, so an
\* added object that `inputs` names joins the objects still to visit
CreateROI_Add_Live ==
    /\ pc = "create_add"
    /\ objects' = Append(objects, local.child)
    /\ local' = [local EXCEPT !.list =
                    IF <<heap[local.child].element_name, heap[local.child].label>>
                          \in Range(createROI.inputs)
                    THEN Append(@, local.child) ELSE @]
    /\ pc' = "create_parent"
    /\ UNCHANGED <<createROI, fakeOCR, mergeROI, heap, plan, given, entry, calls>>

\* line 53
CreateROI_Add ==
    /\ pc = "create_add"
    /\ objects' = Append(objects, local.child)
    /\ pc' = "create_parent"
    /\ UNCHANGED <<createROI, fakeOCR, mergeROI, heap, local, plan, given, entry, calls>>

\* mutant of CreateROI_SetParent: obj.parent = child_object_meta
CreateROI_SetParent_Reversed ==
    /\ pc = "create_parent"
    /\ heap' = [heap EXCEPT ![local.list[local.i]].parent = local.child]
    /\ local' = [local EXCEPT !.i = @ + 1, !.child = None]
    /\ pc' = "create_loop"
    /\ UNCHANGED <<createROI, fakeOCR, mergeROI, objects, plan, given, entry, calls>>

\* line 56
CreateROI_SetParent ==
    /\ pc = "create_parent"
    /\ heap' = [heap EXCEPT ![local.child].parent = local.list[local.i]]
    /\ local' = [local EXCEPT !.i = @ + 1, !.child = None]
    /\ pc' = "create_loop"
    /\ UNCHANGED <<createROI, fakeOCR, mergeROI, objects, plan, given, entry, calls>>

CreateROI_Return ==
    /\ pc = "create_loop"
    /\ local.i > Len(local.list)
    /\ Return("CreateROI")
    /\ UNCHANGED <<createROI, fakeOCR, mergeROI, heap, objects, plan, given, entry>>


----------------------------------------------------------------------------
(* FakeOCR.process_frame *)

\* lines 86-93
FakeOCR_Select ==
    /\ Call("FakeOCR")
    /\ fakeOCR.state = "ready"
    /\ local' = [NoLocal EXCEPT
                   !.list = SelectSeq(objects,
                               LAMBDA id :
                                   /\ heap[id].element_name = fakeOCR.roi_object_element_name
                                   /\ heap[id].label = fakeOCR.roi_object_label),
                   !.i = 1]
    /\ pc' = "fake_loop"
    /\ UNCHANGED <<createROI, fakeOCR, mergeROI, heap, objects, given, calls>>

\* the object lines 96-101 write on
FakeOCR_Target(custom_roi_object) == heap[custom_roi_object].parent

\* mutant of FakeOCR_Write: the object is removed after the write, as MergeROI does
FakeOCR_Write_Removes ==
    /\ pc = "fake_loop"
    /\ local.i <= Len(local.list)
    /\ LET target == FakeOCR_Target(local.list[local.i])
       IN  IF target = None
           THEN /\ Raise("FakeOCR")
                /\ UNCHANGED <<heap, objects>>
           ELSE /\ heap' = [heap EXCEPT ![target] =
                              add_attr_meta(@, fakeOCR.attribute_element_name,
                                            fakeOCR.attribute_name, 1, 1)]
                /\ objects' = remove_obj_meta(objects, local.list[local.i])
                /\ local' = [local EXCEPT !.i = @ + 1]
                /\ UNCHANGED <<pc, plan, calls>>
    /\ UNCHANGED <<createROI, fakeOCR, mergeROI, given, entry>>

\* lines 96-101; None has no add_attr_meta: AttributeError
FakeOCR_Write ==
    /\ pc = "fake_loop"
    /\ local.i <= Len(local.list)
    /\ LET target == FakeOCR_Target(local.list[local.i])
       IN  IF target = None
           THEN /\ Raise("FakeOCR")
                /\ UNCHANGED heap
           ELSE /\ heap' = [heap EXCEPT ![target] =
                              add_attr_meta(@, fakeOCR.attribute_element_name,
                                            fakeOCR.attribute_name, 1, 1)]
                /\ local' = [local EXCEPT !.i = @ + 1]
                /\ UNCHANGED <<pc, plan, calls>>
    /\ UNCHANGED <<createROI, fakeOCR, mergeROI, objects, given, entry>>

FakeOCR_Return ==
    /\ pc = "fake_loop"
    /\ local.i > Len(local.list)
    /\ Return("FakeOCR")
    /\ UNCHANGED <<createROI, fakeOCR, mergeROI, heap, objects, plan, given, entry>>

----------------------------------------------------------------------------
(* MergeROI.process_frame *)

\* mutant of MergeROI_Select: the comparison of the names is inverted
MergeROI_Select_Inverted ==
    /\ Call("MergeROI")
    /\ mergeROI.state = "ready"
    /\ local' = [NoLocal EXCEPT
                   !.list = SelectSeq(objects,
                               LAMBDA id :
                                   ~ /\ heap[id].element_name = mergeROI.roi_object_element_name
                                     /\ heap[id].label = mergeROI.roi_object_label),
                   !.i = 1]
    /\ pc' = "merge_loop"
    /\ UNCHANGED <<createROI, fakeOCR, mergeROI, heap, objects, given, calls>>

\* lines 131-138
MergeROI_Select ==
    /\ Call("MergeROI")
    /\ mergeROI.state = "ready"
    /\ local' = [NoLocal EXCEPT
                   !.list = SelectSeq(objects,
                               LAMBDA id :
                                   /\ heap[id].element_name = mergeROI.roi_object_element_name
                                   /\ heap[id].label = mergeROI.roi_object_label),
                   !.i = 1]
    /\ pc' = "merge_loop"
    /\ UNCHANGED <<createROI, fakeOCR, mergeROI, heap, objects, given, calls>>

\* mutant of MergeROI_Relay: without parent the attribute goes to the first
\* object of the frame
MergeROI_Relay_FallsBack ==
    /\ pc = "merge_loop"
    /\ local.i <= Len(local.list)
    /\ LET custom_roi_object == heap[local.list[local.i]]
           key == <<mergeROI.attribute_element_name, mergeROI.attribute_name>>
           target == IF custom_roi_object.parent = None
                     THEN objects[1] ELSE custom_roi_object.parent
       IN  IF HasAttr(custom_roi_object, key[1], key[2])
           THEN LET roi_attribute == custom_roi_object.attrs[key]
                IN  /\ heap' = [heap EXCEPT ![target] =
                                  add_attr_meta(@, roi_attribute.element_name,
                                                roi_attribute.name,
                                                roi_attribute.value,
                                                roi_attribute.confidence)]
                    /\ pc' = "merge_remove"
                    /\ UNCHANGED <<local, plan, calls>>
           ELSE /\ pc' = "merge_remove"
                /\ UNCHANGED <<heap, local, plan, calls>>
    /\ UNCHANGED <<createROI, fakeOCR, mergeROI, objects, given, entry>>

\* mutant of MergeROI_Relay: every attribute of the object is copied to the
\* parent, not only the one looked up
MergeROI_Relay_CopiesAll ==
    /\ pc = "merge_loop"
    /\ local.i <= Len(local.list)
    /\ LET custom_roi_object == heap[local.list[local.i]]
           key == <<mergeROI.attribute_element_name, mergeROI.attribute_name>>
       IN  IF HasAttr(custom_roi_object, key[1], key[2])
           THEN IF custom_roi_object.parent = None
                THEN /\ Raise("MergeROI")
                     /\ UNCHANGED heap
                ELSE /\ heap' = [heap EXCEPT ![custom_roi_object.parent].attrs =
                                   [k \in (DOMAIN @) \cup (DOMAIN custom_roi_object.attrs) |->
                                       IF k \in DOMAIN custom_roi_object.attrs
                                       THEN custom_roi_object.attrs[k] ELSE @[k]]]
                     /\ pc' = "merge_remove"
                     /\ UNCHANGED <<local, plan, calls>>
           ELSE /\ pc' = "merge_remove"
                /\ UNCHANGED <<heap, local, plan, calls>>
    /\ UNCHANGED <<createROI, fakeOCR, mergeROI, objects, given, entry>>

\* lines 141-154; None has no add_attr_meta: AttributeError
MergeROI_Relay ==
    /\ pc = "merge_loop"
    /\ local.i <= Len(local.list)
    /\ LET custom_roi_object == heap[local.list[local.i]]
           key == <<mergeROI.attribute_element_name, mergeROI.attribute_name>>
       IN  IF HasAttr(custom_roi_object, key[1], key[2])
           THEN LET roi_attribute == custom_roi_object.attrs[key]
                IN  IF custom_roi_object.parent = None
                    THEN /\ Raise("MergeROI")
                         /\ UNCHANGED heap
                    ELSE /\ heap' = [heap EXCEPT ![custom_roi_object.parent] =
                                       add_attr_meta(@, roi_attribute.element_name,
                                                     roi_attribute.name,
                                                     roi_attribute.value,
                                                     roi_attribute.confidence)]
                         /\ pc' = "merge_remove"
                         /\ UNCHANGED <<local, plan, calls>>
           ELSE /\ pc' = "merge_remove"
                /\ UNCHANGED <<heap, local, plan, calls>>
    /\ UNCHANGED <<createROI, fakeOCR, mergeROI, objects, given, entry>>

\* mutant of MergeROI_Remove: the object is not removed
MergeROI_Remove_Skipped ==
    /\ pc = "merge_remove"
    /\ local' = [local EXCEPT !.i = @ + 1]
    /\ pc' = "merge_loop"
    /\ UNCHANGED <<createROI, fakeOCR, mergeROI, heap, objects, plan, given, entry, calls>>

\* line 157
MergeROI_Remove ==
    /\ pc = "merge_remove"
    /\ objects' = remove_obj_meta(objects, local.list[local.i])
    /\ local' = [local EXCEPT !.i = @ + 1]
    /\ pc' = "merge_loop"
    /\ UNCHANGED <<createROI, fakeOCR, mergeROI, heap, plan, given, entry, calls>>

MergeROI_Return ==
    /\ pc = "merge_loop"
    /\ local.i > Len(local.list)
    /\ Return("MergeROI")
    /\ UNCHANGED <<createROI, fakeOCR, mergeROI, heap, objects, plan, given, entry>>

----------------------------------------------------------------------------

Next ==
    \/ ConstructCreateROI
    \/ ConstructFakeOCR
    \/ ConstructMergeROI
    \/ NewFrame
    \/ CreateROI_Select
    \/ CreateROI_New
    \/ CreateROI_Add
    \/ CreateROI_SetParent
    \/ CreateROI_Return
    \/ FakeOCR_Select
    \/ FakeOCR_Write
    \/ FakeOCR_Return
    \/ MergeROI_Select
    \/ MergeROI_Relay
    \/ MergeROI_Remove
    \/ MergeROI_Return

Spec == Init /\ [][Next]_vars


----------------------------------------------------------------------------
(* MergeROI alone, on larger frames *)

RelayFrames == UNION {HeapsOfLen(n) : n \in 0..MaxRelayObjects}

\* the host hands a frame to a pipeline whose only element is MergeROI
NewFrameRelay ==
    /\ pc = "building"
    /\ createROI.state = "ready" /\ fakeOCR.state = "ready" /\ mergeROI.state = "ready"
    /\ \E h \in RelayFrames :
          /\ heap' = h
          /\ objects' = Ids(Len(h))
          /\ given' = Graph(Ids(Len(h)), h)
    /\ plan' = <<"MergeROI">>
    /\ pc' = "idle"
    /\ UNCHANGED <<createROI, fakeOCR, mergeROI, local, entry, calls>>

NextRelay ==
    \/ ConstructCreateROI
    \/ ConstructFakeOCR
    \/ ConstructMergeROI
    \/ NewFrameRelay
    \/ MergeROI_Select
    \/ MergeROI_Relay
    \/ MergeROI_Remove
    \/ MergeROI_Return

SpecRelay == Init /\ [][NextRelay]_vars

----------------------------------------------------------------------------
(* Properties *)

LastCall == calls[Len(calls)]

\* the last process_frame was the stage's and has ended, by return or by exception
Ended(stage) == pc = "idle" /\ calls # <<>> /\ LastCall[1] = stage
Returned(stage) == Ended(stage) /\ LastCall[2] = "returned"

InFrame(id) == id \in Range(objects)
AtEntry == Range(entry.objects)

\* the objects in the frame at entry that the stage's `roi` names
RoiAtEntry(stage) ==
    { id \in AtEntry :
        /\ entry.heap[id].element_name = stage.roi_object_element_name
        /\ entry.heap[id].label = stage.roi_object_label }

AttributeKey(stage) == <<stage.attribute_element_name, stage.attribute_name>>

\* the objects in the frame at entry that `inputs` names
MatchedAtEntry ==
    { x \in AtEntry : Name(entry.heap[x]) \in Range(createROI.inputs) }

\* the objects in the frame named `roi`, with parent x and the box x had
RoiChildren(x) ==
    { c \in Range(objects) :
        /\ heap[c].element_name = createROI.roi_object_element_name
        /\ heap[c].label = createROI.roi_object_label
        /\ heap[c].parent = x
        /\ heap[c].bbox = entry.heap[x].bbox }

\* C1 as stated: after CreateROI.process_frame every object that matched `inputs`
\* at entry has exactly one object in the frame named `roi`, with it as parent
\* and with its bounding box.
C1_Original ==
    Returned("CreateROI") =>
        \A x \in MatchedAtEntry : Cardinality(RoiChildren(x)) = 1

\* C1 amended: after CreateROI.process_frame every object that matched `inputs`
\* at entry has exactly one object added by the call that is named `roi`, has it
\* as parent and has its bounding box (objects of that description that were in
\* the frame before the call are still there beside it).
C1_Amended ==
    Returned("CreateROI") =>
        \A x \in MatchedAtEntry : Cardinality(RoiChildren(x) \ AtEntry) = 1

C1_Witness ==
    /\ Returned("CreateROI")
    /\ \E x \in MatchedAtEntry :
          /\ Cardinality(RoiChildren(x) \ AtEntry) = 1
          /\ Cardinality(RoiChildren(x)) = 2

\* C2: after MergeROI.process_frame, the parent of every object that was named
\* `roi` and carried `attribute` at entry carries the attribute that object
\* carried: same element name, name, value and confidence.
C2_Original ==
    Ended("MergeROI") =>
        \A n \in RoiAtEntry(mergeROI) :
            LET key == AttributeKey(mergeROI)
                p == entry.heap[n].parent
            IN  (key \in DOMAIN entry.heap[n].attrs /\ p # None) =>
                    /\ key \in DOMAIN heap[p].attrs
                    /\ heap[p].attrs[key] = entry.heap[n].attrs[key]

\* C3: after MergeROI.process_frame no object named `roi` is in the frame.
C3_Original ==
    Ended("MergeROI") =>
        \A id \in Range(objects) :
            ~ /\ heap[id].element_name = mergeROI.roi_object_element_name
              /\ heap[id].label = mergeROI.roi_object_label

\* C4: after FakeOCR.process_frame every object that was named `roi` at entry
\* itself carries the configured attribute with value 1 and confidence 1.
C4_Original ==
    Returned("FakeOCR") =>
        \A t \in RoiAtEntry(fakeOCR) :
            LET key == AttributeKey(fakeOCR)
            IN  /\ key \in DOMAIN heap[t].attrs
                /\ heap[t].attrs[key] = AttributeMeta(key[1], key[2], 1, 1)

\* C5: when an object named `roi` does not carry `attribute` at entry of
\* MergeROI.process_frame, the call raises nothing, the object is not in the frame
\* afterwards, and, when it is the only selected child of its parent, the
\* attributes of its parent are as they were.
C5_Original ==
    Ended("MergeROI") =>
        \A n \in RoiAtEntry(mergeROI) :
            LET key == AttributeKey(mergeROI)
                p == entry.heap[n].parent
            IN  key \notin DOMAIN entry.heap[n].attrs =>
                    /\ LastCall[2] = "returned"
                    /\ ~InFrame(n)
                    /\ (/\ p # None
                        /\ \A m \in RoiAtEntry(mergeROI) \ {n} : entry.heap[m].parent # p)
                       => heap[p].attrs = entry.heap[p].attrs

\* the three stages were called in pipeline order on the frame and returned
PipelineDone ==
    /\ pc = "idle"
    /\ calls = <<<<"CreateROI", "returned">>, <<"FakeOCR", "returned">>,
                 <<"MergeROI", "returned">>>>

SameRoiAndAttribute ==
    /\ fakeOCR.roi_object_element_name = createROI.roi_object_element_name
    /\ fakeOCR.roi_object_label = createROI.roi_object_label
    /\ mergeROI.roi_object_element_name = createROI.roi_object_element_name
    /\ mergeROI.roi_object_label = createROI.roi_object_label
    /\ AttributeKey(mergeROI) = AttributeKey(fakeOCR)

RoiName == <<createROI.roi_object_element_name, createROI.roi_object_label>>

NoRoiGiven ==
    /\ \A id \in Range(given.objects) : Name(given.heap[id]) # RoiName
    /\ RoiName \notin Range(createROI.inputs)

\* C6: from a frame with no object named `roi`, and `roi` not among `inputs`,
\* CreateROI, FakeOCR, MergeROI with the same `roi` and `attribute` leave the
\* objects the frame had; each one that `inputs` names carries the attribute with
\* value 1 and confidence 1 and is otherwise as given, every other one is as given.
C6_Pipeline ==
    (PipelineDone /\ SameRoiAndAttribute /\ NoRoiGiven) =>
        /\ objects = given.objects
        /\ \A id \in Range(given.objects) :
              LET key == AttributeKey(fakeOCR)
                  was == given.heap[id]
                  now == heap[id]
              IN  IF Name(was) \in Range(createROI.inputs)
                  THEN /\ [now EXCEPT !.attrs = was.attrs] = was
                       /\ DOMAIN now.attrs = DOMAIN was.attrs \cup {key}
                       /\ now.attrs[key] = AttributeMeta(key[1], key[2], 1, 1)
                       /\ \A k \in DOMAIN was.attrs \ {key} : now.attrs[k] = was.attrs[k]
                  ELSE now = was

C6_Witness ==
    /\ PipelineDone /\ SameRoiAndAttribute /\ NoRoiGiven
    /\ Len(given.objects) = MaxObjects
    /\ \E id \in Range(given.objects) :
          /\ Name(given.heap[id]) \in Range(createROI.inputs)
          /\ given.heap[id].attrs # heap[id].attrs
          /\ given.heap[id].parent # None

\* C7: CreateROI.process_frame only inserts: every object in the frame at entry
\* is in the frame afterwards, at its place, with the name, bounding box, parent
\* and attributes it had.
C7_InsertionOnly ==
    Returned("CreateROI") =>
        /\ Len(objects) >= Len(entry.objects)
        /\ \A i \in 1..Len(entry.objects) :
              /\ objects[i] = entry.objects[i]
              /\ heap[objects[i]] = entry.heap[objects[i]]

C7_Witness ==
    /\ Returned("CreateROI")
    /\ Len(objects) > Len(entry.objects)
    /\ \E id \in AtEntry : entry.heap[id].parent # None /\ entry.heap[id].attrs # NoAttrs

\* C8: when no object in the frame is named `roi`, MergeROI.process_frame leaves
\* the objects of the frame, their parents and their attributes as they were.
C8_NothingToMerge ==
    (Ended("MergeROI") /\ RoiAtEntry(mergeROI) = {}) =>
        /\ LastCall[2] = "returned"
        /\ objects = entry.objects
        /\ heap = entry.heap

C8_Witness ==
    /\ Returned("MergeROI")
    /\ RoiAtEntry(mergeROI) = {}
    /\ Len(entry.objects) = MaxObjects
    /\ \E id \in AtEntry :
          entry.heap[id].parent # None /\ AttributeKey(mergeROI) \in DOMAIN entry.heap[id].attrs

\* a "category.label" string: exactly one separator
Dots(s) == Cardinality({i \in 1..Len(s) : s[i] = "."})
Malformed(s) == Dots(s) # 1

\* the option strings a stage was constructed with
OptionStrings(stage) ==
    IF stage.state = "unbuilt" THEN {}
    ELSE IF stage = createROI THEN Range(stage.args[1]) \cup {stage.args[2]}
    ELSE {stage.args[1], stage.args[2]}

Misconfigured(stage) == \E s \in OptionStrings(stage) : Malformed(s)

NeverCalled(name) == \A i \in 1..Len(calls) : calls[i][1] # name

\* C9: a stage constructed with an option string that does not split into
\* exactly two parts fails at construction: it is no instance, none of its
\* process_frame steps ever runs, and no frame is handed to the pipeline.
C9_EagerConfigurationError ==
    /\ Misconfigured(createROI) =>
          /\ createROI.state = "failed"
          /\ NeverCalled("CreateROI")
          /\ pc = "building" /\ heap = <<>> /\ objects = <<>>
    /\ Misconfigured(fakeOCR) =>
          /\ fakeOCR.state = "failed"
          /\ NeverCalled("FakeOCR")
          /\ pc = "building" /\ heap = <<>> /\ objects = <<>>
    /\ Misconfigured(mergeROI) =>
          /\ mergeROI.state = "failed"
          /\ NeverCalled("MergeROI")
          /\ pc = "building" /\ heap = <<>> /\ objects = <<>>

C9_Witness ==
    /\ createROI.state = "ready"
    /\ fakeOCR.state = "ready"
    /\ mergeROI.state = "failed"
    /\ Misconfigured(mergeROI)

\* C10: FakeOCR.process_frame adds no object to the frame and removes none, and
\* changes no object's parent, element name, label or bounding box.
C10_StructureKept ==
    Ended("FakeOCR") =>
        /\ objects = entry.objects
        /\ Len(heap) = Len(entry.heap)
        /\ \A id \in 1..Len(entry.heap) :
              [heap[id] EXCEPT !.attrs = entry.heap[id].attrs] = entry.heap[id]

C10_Witness ==
    /\ Returned("FakeOCR")
    /\ heap # entry.heap
    /\ Len(objects) = MaxObjects

\* a CreateROI.process_frame is running
InCreateROI == pc \in {"create_loop", "create_add", "create_parent"}

\* the objects allocated since the entry of the last process_frame
Allocated == (1..Len(heap)) \ (1..Len(entry.heap))

\* C11: in CreateROI.process_frame no object the call has created has a parent
\* while it is not in the frame: add_obj_meta comes before the assignment of
\* the parent, and the object waits in the frame without parent in between.
C11_RegisteredBeforeParent ==
    (InCreateROI \/ Returned("CreateROI")) =>
        /\ \A id \in Allocated : heap[id].parent # None => InFrame(id)
        /\ pc = "create_parent" =>
              InFrame(local.child) /\ heap[local.child].parent = None
        /\ pc = "create_add" =>
              ~InFrame(local.child) /\ heap[local.child].parent = None

C11_Witness ==
    /\ pc = "create_loop"
    /\ \E id \in Allocated : heap[id].parent # None /\ InFrame(id)

\* MergeROI.process_frame is about to process a selected object that carries
\* `attribute` and has no parent
ParentlessSelected ==
    /\ pc = "merge_loop"
    /\ local.i <= Len(local.list)
    /\ AttributeKey(mergeROI) \in DOMAIN heap[local.list[local.i]].attrs
    /\ heap[local.list[local.i]].parent = None

\* C12: when MergeROI.process_frame comes to a selected object that carries
\* `attribute` and has no parent, the step writes no attribute on any object,
\* and it either ends the call with an exception or goes on to the removal.
C12_ParentlessNoWrite ==
    [][ParentlessSelected =>
          /\ heap' = heap
          /\ objects' = objects
          /\ \/ pc' = "idle" /\ calls' = Append(calls, <<"MergeROI", "raised">>)
             \/ pc' = "merge_remove" /\ calls' = calls]_vars

C12_Witness ==
    /\ Ended("MergeROI")
    /\ LastCall[2] = "raised"
    /\ Len(objects) = MaxObjects

\* place of an object in frame_meta.objects at entry
PlaceAtEntry(id) == CHOOSE i \in 1..Len(entry.objects) : entry.objects[i] = id

\* the selected objects that had parent p and carried `attribute` at entry
CarriersFor(p) ==
    { n \in RoiAtEntry(mergeROI) :
        /\ entry.heap[n].parent = p
        /\ AttributeKey(mergeROI) \in DOMAIN entry.heap[n].attrs }

LastOf(S) == CHOOSE n \in S : \A m \in S : PlaceAtEntry(m) <= PlaceAtEntry(n)

\* C13: when two or more objects named `roi` have the same parent and carry
\* `attribute` with different values, after MergeROI.process_frame the parent
\* carries under that key the value and confidence of the last of them in the
\* order of frame_meta.objects.
C13_Original ==
    Ended("MergeROI") =>
        \A p \in 1..Len(entry.heap) :
            LET key == AttributeKey(mergeROI)
                S == CarriersFor(p)
            IN  (\E a, b \in S : entry.heap[a].attrs[key] # entry.heap[b].attrs[key]) =>
                    /\ key \in DOMAIN heap[p].attrs
                    /\ heap[p].attrs[key] = entry.heap[LastOf(S)].attrs[key]

\* C14: every attribute write of MergeROI.process_frame is made on an object
\* that is in the frame when it is written.  (At "merge_remove" the selected
\* object that carries `attribute` has just been copied onto its parent.)
C14_Original ==
    (/\ pc = "merge_remove"
     /\ AttributeKey(mergeROI) \in DOMAIN heap[local.list[local.i]].attrs)
        => InFrame(heap[local.list[local.i]].parent)

\* the objects of the frame at entry that `inputs` names, in frame order
MatchedListAtEntry ==
    SelectSeq(entry.objects,
              LAMBDA id : Name(entry.heap[id]) \in Range(createROI.inputs))

\* C15: CreateROI.process_frame works on the list of matching objects it made
\* at entry: the list never changes during the call, the loop index only runs
\* through it, every object the call creates has an object of the entry frame
\* as parent, and at return the frame has grown by exactly the number of
\* objects that matched at entry, also when `roi` is among `inputs`.
C15_Snapshot ==
    /\ InCreateROI =>
          /\ local.list = MatchedListAtEntry
          /\ local.i \in 1..(Len(local.list) + 1)
          /\ Len(objects) = Len(entry.objects) + (local.i - 1)
                               + (IF pc = "create_parent" THEN 1 ELSE 0)
    /\ (InCreateROI \/ Returned("CreateROI")) =>
          \A id \in Allocated : heap[id].parent \in AtEntry \cup {None}
    /\ Returned("CreateROI") =>
          /\ Len(objects) = Len(entry.objects) + Len(MatchedListAtEntry)
          /\ Len(heap) = Len(entry.heap) + Len(MatchedListAtEntry)

C15_Witness ==
    /\ Returned("CreateROI")
    /\ RoiName \in Range(createROI.inputs)
    /\ Len(MatchedListAtEntry) = MaxObjects
    /\ Len(objects) = 2 * MaxObjects

\* a MergeROI.process_frame is running
InMergeROI == pc \in {"merge_loop", "merge_remove"}

\* C16: during and after MergeROI.process_frame the frame holds the objects it
\* had at entry, in their order, less some that `roi` names; no object has
\* changed name, bounding box or parent; and an object whose attributes have
\* changed is the parent of a selected object that carries `attribute` (from
\* the entry on, or received from a selected child earlier in the call), and
\* differs from what it was only under the key of `attribute`.
C16_RelayFrame ==
    (InMergeROI \/ Ended("MergeROI")) =>
        LET key == AttributeKey(mergeROI)
        IN  /\ objects = SelectSeq(entry.objects, LAMBDA id : InFrame(id))
            /\ \A id \in AtEntry : ~InFrame(id) => id \in RoiAtEntry(mergeROI)
            /\ Len(heap) = Len(entry.heap)
            /\ \A id \in 1..Len(entry.heap) :
                  /\ [heap[id] EXCEPT !.attrs = entry.heap[id].attrs] = entry.heap[id]
                  /\ heap[id].attrs # entry.heap[id].attrs =>
                        /\ \E n \in RoiAtEntry(mergeROI) :
                              /\ entry.heap[n].parent = id
                              /\ key \in DOMAIN heap[n].attrs
                        /\ DOMAIN heap[id].attrs = DOMAIN entry.heap[id].attrs \cup {key}
                        /\ \A k \in DOMAIN entry.heap[id].attrs \ {key} :
                              heap[id].attrs[k] = entry.heap[id].attrs[k]

C16_Witness ==
    /\ Returned("MergeROI")
    /\ Len(objects) < Len(entry.objects)
    /\ \E id \in 1..Len(entry.heap) :
          /\ heap[id].attrs # entry.heap[id].attrs
          /\ n_ok \in DOMAIN entry.heap[id].attrs

====
